---------------------------- MODULE Spec2Model ----------------------------
(***************************************************************************)
(* Model of the enterprise RAG system: document ingestion                  *)
(* (DocumentProcessor, MetadataEnricher, the upload handler), the Index    *)
(* Gateway (ChromaVectorStore), the Answer Generator (RAGChain) and the    *)
(* Cache Layer (CacheManager, cached).                                     *)
(*                                                                         *)
(* Exceptions are modelled by the name of their class; "none" means the    *)
(* call returned.  Calls into external libraries (loaders, splitter,       *)
(* Chroma, Redis, the LLM) take their outcome from the environment.        *)
(***************************************************************************)
EXTENDS Integers, Sequences, FiniteSets, TLC

VARIABLES
    index,      \* the external similarity index: a set of [id, chunk]
    tmpFiles,   \* temporary files that exist on disk (ids of the uploads that wrote them)
    up,         \* record of the last upload_document request
    pd,         \* record of the last direct process_document call
    gw,         \* record of the last Index Gateway call
    gen,        \* record of the last generate_response call
    store,      \* the external key-value store: key -> [value, ttl]
    openConns,  \* connection handles to the store that are open
    cc,         \* record of the last call of a function wrapped by cached()
    keys,       \* the last two derived cache keys, with the calls they came from
    sp,         \* record of the last document split by a new DocumentProcessor
    en,         \* record of the last MetadataEnricher.enrich call
    val,        \* record of the last ResponseValidator.validate call
    qry         \* record of the last query_documents request

vars == <<index, tmpFiles, up, pd, gw, gen, store, openConns, cc, keys, sp, en, val, qry>>

----------------------------------------------------------------------------
(* Bounds of the model *)

MaxTmpFiles == 2     \* temporary files the disk can hold at once
MaxChunks == 2       \* chunks the splitter yields for one document

----------------------------------------------------------------------------
(* Configuration: src/src/core/config.py *)

CHUNK_SIZE == 1000
CHUNK_OVERLAP == 200
MAX_DOCUMENT_SIZE_MB == 50
SUPPORTED_FORMATS == {".pdf", ".docx", ".txt", ".md", ".pptx"}
BytesPerMB == 1024 * 1024

\* DocumentProcessor.__init__: self.loaders
loaders == {".pdf", ".docx", ".txt", ".md"}

----------------------------------------------------------------------------
(* Generic helpers *)

Range(s) == {s[i] : i \in 1..Len(s)}

SeqsUpTo(S, n) == UNION {[1..k -> S] : k \in 0..n}

\* dict.update(new): the keys of new win
DictUpdate(old, new) == new @@ old

EmptyDict == <<>>

\* No call is in progress
Idle == [pc |-> "idle"]

\* A text is a sequence of tokens separated by single spaces.  The text of
\* an answer is written as a phrase and the number of times it is repeated.
Answer(phrase, times) == [phrase |-> phrase, times |-> times]

\* ""
EmptyAnswer == Answer(<<>>, 0)

\* str.lower() of a token
Lower(tok) ==
    CASE tok = "The" -> "the"
      [] tok = "Cannot" -> "cannot"
      [] tok = "Policy" -> "policy"
      [] tok = "DEF " -> "def "
      [] tok = "Agenda" -> "agenda"
      [] OTHER -> tok

\* A fixed-width digest of a sequence of byte codes (hashlib digests are
\* modelled as a polynomial hash of the bytes, reduced to a fixed width).
\* The bytes are consumed in order.
DigestBlock(h, codes, from, to, mult, width) ==
    LET d[i \in (from - 1)..to] ==
            IF i = from - 1 THEN h ELSE (d[i - 1] * mult + codes[i]) % width
    IN  d[to]

RECURSIVE DigestRange(_, _, _, _, _, _)
DigestRange(h, codes, from, to, mult, width) ==
    IF to - from < 8 THEN DigestBlock(h, codes, from, to, mult, width)
    ELSE LET mid == (from + to) \div 2
             left == DigestRange(h, codes, from, mid, mult, width)
         IN  IF left < 0 THEN left
             ELSE DigestRange(left, codes, mid + 1, to, mult, width)

DigestFrom(h, codes, mult, width) == DigestRange(h, codes, 1, Len(codes), mult, width)

----------------------------------------------------------------------------
(* Inputs of the ingestion pipeline *)

Suffixes == SUPPORTED_FORMATS \cup {".exe"}

\* File sizes in bytes around the configured maximum.
Sizes == {10, MAX_DOCUMENT_SIZE_MB * BytesPerMB, MAX_DOCUMENT_SIZE_MB * BytesPerMB + 1}

\* File contents, as byte sequences.
Datas == {<<1, 2>>, <<2, 1>>}

\* _calculate_file_hash reads the file in blocks of this many bytes
ReadSize == 4096

\* A file one byte longer than a block
LongData == [i \in 1..(ReadSize + 1) |-> (i * 7) % 251]

\* File contents handed to process_document directly
ProcessDatas == Datas \cup {LongData}

\* Values of datetime.now()
Times == {100}

\* Chunk texts, as sequences of words.
Texts == {<<"hello">>, <<"def ", "policy">>}

WordLen(w) == CASE w = "hello" -> 5 [] w = "def " -> 4 [] w = "policy" -> 6 [] OTHER -> 1

RECURSIVE TextLen(_)
TextLen(t) == IF t = <<>> THEN 0 ELSE WordLen(Head(t)) + TextLen(Tail(t))

\* custom_metadata dictionaries a caller can pass
CustomDicts ==
    { EmptyDict,
      [department |-> "hr"],
      [chunk_index |-> 7],
      [total_chunks |-> 9],
      [chunk_index |-> 0, total_chunks |-> 1],
      [source |-> 9, file_name |-> 9, file_type |-> ".zip", file_hash |-> 1],
      [processed_at |-> 0, chunk_size |-> 0, department |-> "hr"],
      [content_type |-> "custom", enriched_at |-> 0, file_type |-> ".zip"] }

\* The `metadata` form field of an upload: absent, text that eval() rejects,
\* text that evaluates to a non-mapping, or a dict literal.
UploadMetadatas ==
    {[kind |-> "none"], [kind |-> "garbage"], [kind |-> "nondict"]}
    \cup {[kind |-> "dict", d |-> d] : d \in CustomDicts}

\* What the external loader and splitter do with a document.
LoadOutcomes == {"ok", "fail"}
SplitOutcomes == {[exc |-> "SplitterError", texts |-> <<>>]}
                 \cup {[exc |-> "none", texts |-> t] : t \in SeqsUpTo(Texts, MaxChunks)}

----------------------------------------------------------------------------
(* DocumentProcessor: src/src/ingestion/document_processor.py *)

\* A faulty variant: the size of the file is not checked
validate_file_unsized(file) ==
    IF ~file.exists THEN "DocumentProcessingError"
    ELSE IF file.suffix \notin SUPPORTED_FORMATS THEN "DocumentProcessingError"
    ELSE "none"

\* _validate_file: the exception it raises, or "none"
validate_file(file) ==
    IF ~file.exists THEN "DocumentProcessingError"
    ELSE IF file.suffix \notin SUPPORTED_FORMATS THEN "DocumentProcessingError"
    ELSE IF file.size > MAX_DOCUMENT_SIZE_MB * BytesPerMB THEN "DocumentProcessingError"
    ELSE "none"

\* _load_document: selects the loader by suffix, then loads
load_document(file, loadOutcome) ==
    IF file.suffix \notin loaders
    THEN [exc |-> "DocumentProcessingError", trace |-> <<"select_loader">>]
    ELSE IF loadOutcome = "fail"
    THEN [exc |-> "LoaderError", trace |-> <<"select_loader", "load">>]
    ELSE [exc |-> "none", trace |-> <<"select_loader", "load">>]

\* hashlib.sha256(): the state of a fresh digest
Sha256Init == 7

\* sha256_hash.update(block)
sha256_update(h, block) == DigestFrom(h, block, 31, 65521)

\* hashlib.sha256(data).hexdigest(): the digest of a whole byte string
sha256(data) == sha256_update(Sha256Init, data)

\* A faulty variant: f.read(4096) is called once, without the loop
calculate_file_hash_first_block(file) ==
    sha256_update(Sha256Init,
                  SubSeq(file.data, 1, IF Len(file.data) < ReadSize
                                       THEN Len(file.data) ELSE ReadSize))

\* _calculate_file_hash: the file is read block by block until read()
\* returns b"", and the digest is updated with every block
calculate_file_hash(file) ==
    LET n == Len(file.data)
        reads == (n + ReadSize - 1) \div ReadSize
        h[j \in 0..reads] ==
            IF j = 0 THEN Sha256Init
            ELSE sha256_update(h[j - 1],
                               SubSeq(file.data, ReadSize * (j - 1) + 1,
                                      IF ReadSize * j < n THEN ReadSize * j ELSE n))
    IN  h[reads]

\* The generated metadata of chunk number i (0-based) of n
GeneratedMetadata(file, file_hash, i, n, text, now) ==
    [source |-> file.path,
     file_name |-> file.name,
     file_type |-> file.suffix,
     file_hash |-> file_hash,
     chunk_index |-> i,
     total_chunks |-> n,
     processed_at |-> now,
     chunk_size |-> TextLen(text)]

\* A faulty variant: enumerate(chunks, 1) numbers the chunks from 1
enrich_metadata_from_one(texts, file, custom_metadata, now) ==
    LET file_hash == calculate_file_hash(file)
    IN  [i \in 1..Len(texts) |->
            [page_content |-> texts[i],
             metadata |-> DictUpdate([source |-> file.path],
                            DictUpdate(GeneratedMetadata(file, file_hash, i, Len(texts),
                                                         texts[i], now),
                                       custom_metadata))]]

\* A faulty variant: {**custom_metadata, generated...}, the generated fields win
enrich_metadata_generated_last(texts, file, custom_metadata, now) ==
    LET file_hash == calculate_file_hash(file)
    IN  [i \in 1..Len(texts) |->
            [page_content |-> texts[i],
             metadata |-> DictUpdate([source |-> file.path],
                            DictUpdate(custom_metadata,
                                       GeneratedMetadata(file, file_hash, i - 1, Len(texts),
                                                         texts[i], now)))]]

\* _enrich_metadata: chunk.metadata.update({generated..., **custom_metadata})
\* on the metadata the loader gave the chunk
enrich_metadata(texts, file, custom_metadata, now) ==
    LET file_hash == calculate_file_hash(file)
    IN  [i \in 1..Len(texts) |->
            [page_content |-> texts[i],
             metadata |-> DictUpdate([source |-> file.path],
                            DictUpdate(GeneratedMetadata(file, file_hash, i - 1, Len(texts),
                                                         texts[i], now),
                                       custom_metadata))]]

\* The body of process_document's try block: the exception that escapes it
\* ("none" when it returns), the chunks it returns and the steps it took.
process_document_body(file, metadata, loadOutcome, splitOutcome, now) ==
    LET v == validate_file(file)
        ld == load_document(file, loadOutcome)
    IN  IF v # "none"
        THEN [exc |-> v, chunks |-> <<>>, trace |-> <<"validate">>]
        ELSE IF ld.exc # "none"
        THEN [exc |-> ld.exc, chunks |-> <<>>, trace |-> <<"validate">> \o ld.trace]
        ELSE IF splitOutcome.exc # "none"
        THEN [exc |-> splitOutcome.exc, chunks |-> <<>>,
              trace |-> <<"validate">> \o ld.trace \o <<"split">>]
        ELSE IF metadata.kind = "nondict" /\ splitOutcome.texts # <<>>
        THEN \* {**custom_metadata} of a non-mapping raises TypeError for the first chunk
             [exc |-> "TypeError", chunks |-> <<>>,
              trace |-> <<"validate">> \o ld.trace \o <<"split", "enrich">>]
        ELSE [exc |-> "none",
              chunks |-> IF splitOutcome.texts = <<>> THEN <<>>
                         ELSE enrich_metadata(splitOutcome.texts, file, metadata.d, now),
              trace |-> <<"validate">> \o ld.trace \o <<"split", "enrich">>]

\* A faulty variant: a failure of the splitter is logged and the text split
\* so far is returned
process_document_partial(file, metadata, loadOutcome, splitOutcome, now) ==
    LET md == IF metadata.kind = "none" THEN [kind |-> "dict", d |-> EmptyDict] ELSE metadata
        b == process_document_body(file, md, loadOutcome, splitOutcome, now)
    IN  IF b.exc = "SplitterError"
        THEN [exc |-> "none", cause |-> b.exc,
              chunks |-> <<[page_content |-> <<"hello">>, metadata |-> [source |-> file.path]]>>,
              trace |-> b.trace]
        ELSE [exc |-> IF b.exc = "none" THEN "none" ELSE "DocumentProcessingError",
              cause |-> b.exc, chunks |-> b.chunks, trace |-> b.trace]

\* process_document: every exception of the body is re-raised as
\* DocumentProcessingError; `metadata or {}` turns None into {}.
process_document(file, metadata, loadOutcome, splitOutcome, now) ==
    LET md == IF metadata.kind = "none" THEN [kind |-> "dict", d |-> EmptyDict] ELSE metadata
        b == process_document_body(file, md, loadOutcome, splitOutcome, now)
    IN  [exc |-> IF b.exc = "none" THEN "none" ELSE "DocumentProcessingError",
         cause |-> b.exc,
         chunks |-> b.chunks,
         trace |-> b.trace]


----------------------------------------------------------------------------
(* DocumentProcessor.__init__ and the text splitter *)

\* The keyword parameters the constructor of RecursiveCharacterTextSplitter
\* accepts; any other keyword is a TypeError.
TextSplitterParams ==
    {"separators", "keep_separator", "is_separator_regex", "chunk_size", "chunk_overlap",
     "length_function", "add_start_index", "strip_whitespace"}

\* The keyword arguments DocumentProcessor.__init__ passes to the splitter
text_splitter_kwargs ==
    [chunk_size |-> CHUNK_SIZE,
     chunnk_overlap |-> CHUNK_OVERLAP,
     length_function |-> "len",
     separators |-> <<"\n\n", "\n", ". ", " ", "">>]

\* DocumentProcessor.__init__: the exception it raises ("none": the
\* processor exists) and the configuration the splitter got
DocumentProcessor_init ==
    IF ~(DOMAIN text_splitter_kwargs \subseteq TextSplitterParams)
    THEN [exc |-> "TypeError", chunk_size |-> 0, chunk_overlap |-> 0]
    ELSE \* a splitter that is given no chunk_overlap uses the library's
         \* default, which is the value of CHUNK_OVERLAP
         [exc |-> "none",
          chunk_size |-> text_splitter_kwargs.chunk_size,
          chunk_overlap |-> IF "chunk_overlap" \in DOMAIN text_splitter_kwargs
                            THEN text_splitter_kwargs["chunk_overlap"]
                            ELSE CHUNK_OVERLAP]

\* Loaded documents, as sequences of characters: words of four letters
\* separated by spaces, of lengths around chunk_size
DocLengths == (CHUNK_SIZE - 50)..(CHUNK_SIZE + 100)

LoadedDocuments ==
    {[i \in 1..n |-> IF i % 5 = 0 THEN " " ELSE "a"] : n \in DocLengths}

\* What the splitter library returns for a text when it runs: the text
\* whole, or cut in two pieces that share `overlap` characters
LibrarySplits(text, size, overlap) ==
    IF Len(text) <= size THEN {<<text>>}
    ELSE {<<SubSeq(text, 1, size), SubSeq(text, size - overlap + 1, Len(text))>>}

\* A DocumentProcessor is built and splits a loaded document
\* (DocumentProcessor() followed by text_splitter.split_documents)
split_documents_call ==
    /\ sp.pc = "idle"
    /\ \E text \in LoadedDocuments :
          LET dp == DocumentProcessor_init
          IN  \E chunks \in IF dp.exc = "none"
                            THEN LibrarySplits(text, dp.chunk_size, dp.chunk_overlap)
                            ELSE {<<>>} :
                 sp' = [pc |-> "done", text |-> text, exc |-> dp.exc, chunks |-> chunks]
    /\ UNCHANGED <<index, tmpFiles, up, pd, gw, gen, store, openConns, cc, keys, en, val, qry>>

split_documents_return ==
    /\ sp.pc = "done"
    /\ sp' = Idle
    /\ UNCHANGED <<index, tmpFiles, up, pd, gw, gen, store, openConns, cc, keys, en, val, qry>>

----------------------------------------------------------------------------
(* MetadataEnricher: src/src/ingestion/metadata_enricher.py *)

\* The entity type whose pattern a word matches ("none": no pattern)
EntityType(w) ==
    CASE w = "a@b.co" -> "email"
      [] w = "555-123-4567" -> "phone"
      [] w = "1/2/2024" -> "date"
      [] w = "http://x.y" -> "url"
      [] OTHER -> "none"

\* _extract_entities: per type the set of matches; types without match are absent
extract_entities(text) ==
    LET types == {EntityType(w) : w \in Range(text)} \ {"none"}
    IN  [t \in types |-> {w \in Range(text) : EntityType(w) = t}]

\* _calculate_statistics
calculate_statistics(text) ==
    [char_count |-> TextLen(text),
     word_count |-> Cardinality({i \in 1..Len(text) : text[i] \notin {".", "\n\n"}}),
     sentence_count |-> 1 + Cardinality({i \in 1..Len(text) : text[i] = "."}),
     paragraph_count |-> 1 + Cardinality({i \in 1..Len(text) : text[i] = "\n\n"})]

\* The keywords of the classifier that occur in a token as substrings
KeywordsIn(tok) ==
    CASE tok = "classification" -> {"class"}
      [] tok = "policies" -> {}
      [] tok = "imports" -> {"import"}
      [] OTHER -> {tok}

\* document.page_content.lower()
LowerText(text) == [i \in 1..Len(text) |-> Lower(text[i])]

\* `word in content`
Contains(content, word) == \E i \in 1..Len(content) : word \in KeywordsIn(content[i])

\* A faulty variant: the policy keywords are tried first
identify_content_type_policy_first(text) ==
    LET content == LowerText(text)
    IN  IF Contains(content, "policy") \/ Contains(content, "procedure") THEN "policy"
        ELSE IF \E w \in {"class", "def ", "function", "import"} : Contains(content, w)
        THEN "code"
        ELSE IF \E w \in {"abstract", "introduction", "methodology"} : Contains(content, w)
        THEN "academic"
        ELSE IF Contains(content, "meeting") \/ Contains(content, "agenda") THEN "meeting_notes"
        ELSE "general"

\* _identify_content_type: first match wins
identify_content_type(text) ==
    LET content == LowerText(text)
    IN  IF \E w \in {"class", "def ", "function", "import"} : Contains(content, w)
        THEN "code"
        ELSE IF \E w \in {"abstract", "introduction", "methodology"} : Contains(content, w)
        THEN "academic"
        ELSE IF Contains(content, "meeting") \/ Contains(content, "agenda") THEN "meeting_notes"
        ELSE IF Contains(content, "policy") \/ Contains(content, "procedure") THEN "policy"
        ELSE "general"

\* A faulty variant: metadata.setdefault for each key, a key the chunk has is kept
enrich_keeping_existing(document, now) ==
    [page_content |-> document.page_content,
     metadata |-> DictUpdate([entities |-> extract_entities(document.page_content),
                              statistics |-> calculate_statistics(document.page_content),
                              content_type |-> identify_content_type(document.page_content),
                              enriched_at |-> now],
                             document.metadata)]

\* enrich: document.metadata.update({...}); returns the document
enrich(document, now) ==
    [page_content |-> document.page_content,
     metadata |-> DictUpdate(document.metadata,
                    [entities |-> extract_entities(document.page_content),
                     statistics |-> calculate_statistics(document.page_content),
                     content_type |-> identify_content_type(document.page_content),
                     enriched_at |-> now])]

\* Tokens of the chunks handed to the enricher
EnrichTokens ==
    {"DEF ", "Policy", "policy", "abstract", "Agenda", "meeting", "classification",
     "policies", "hello", "a@b.co"}

\* Chunks handed to the enricher: with and without a content_type of the caller
EnrichDocuments ==
    {[page_content |-> t, metadata |-> m] :
        t \in SeqsUpTo(EnrichTokens, MaxChunks),
        m \in {[source |-> "a.txt"], [source |-> "a.txt", content_type |-> "custom"]}}

\* A call of MetadataEnricher.enrich
enrich_call ==
    /\ en.pc = "idle"
    /\ \E document \in EnrichDocuments, now \in Times :
          en' = [pc |-> "done", document |-> document, now |-> now,
                 r |-> enrich(document, now)]
    /\ UNCHANGED <<index, tmpFiles, up, pd, gw, gen, store, openConns, cc, keys, sp, val, qry>>

enrich_return ==
    /\ en.pc = "done"
    /\ en' = Idle
    /\ UNCHANGED <<index, tmpFiles, up, pd, gw, gen, store, openConns, cc, keys, sp, val, qry>>

----------------------------------------------------------------------------
(* Index Gateway: src/src/retrieval/vector_store.py *)

\* Failures of the backend (Chroma, the embedding service); "none": it answers.
BackendOutcomes == {"none", "ChromaError", "ConnectionError"}

\* Entries the persisted index may hold when the process starts.
PreExisting ==
    { [id |-> "id1", page_content |-> <<"hello">>,
       metadata |-> [source |-> "a.txt", chunk_index |-> 0]],
      [id |-> "id2", page_content |-> <<"def ", "policy">>,
       metadata |-> [source |-> "b.md", chunk_index |-> 0]] }

Ids == {"id1", "id2", "id3"}

\* ChromaVectorStore.add_documents.  self.store.aadd_documents is a coroutine
\* function and it is called without await: the call only creates a
\* coroutine object, whose body (embedding and storing the chunks) never
\* runs, so no backend failure can occur and the index is left as it is.
\* The coroutine object is what the method returns.  `documents` are the
\* chunks the method was handed.
add_documents(documents, idx, backend) ==
    [exc |-> "none",
     result |-> [kind |-> "coroutine", ids |-> <<>>],
     documents |-> documents,
     index |-> idx,
     backendCalls |-> 1,
     backendRan |-> FALSE]

\* The chunks of the index that satisfy the equality constraints of filter
Matching(idx, filter) ==
    {e \in idx : \A k \in DOMAIN filter :
                    k \in DOMAIN e.metadata /\ e.metadata[k] = filter[k]}

Min(a, b) == IF a < b THEN a ELSE b

\* What the backend may answer to a search: k (or all) matching chunks, in
\* the order of their similarity to the query, which the embedding decides.
SearchResults(idx, k, filter) ==
    LET m == Matching(idx, filter)
        n == Min(k, Cardinality(m))
    IN  {s \in [1..n -> m] : \A i, j \in 1..n : i # j => s[i] # s[j]}

\* ChromaVectorStore.similarity_search: only RetrievalError is caught, so
\* every other exception of the backend leaves the method as it is.
similarity_search(results, idx, backend) ==
    IF backend = "none"
    THEN [exc |-> "none", result |-> [kind |-> "list", docs |-> results],
          index |-> idx, backendCalls |-> 1, backendRan |-> TRUE]
    ELSE [exc |-> IF backend = "RetrievalError" THEN "RetrievalError" ELSE backend,
          result |-> [kind |-> "raised", docs |-> <<>>],
          index |-> idx, backendCalls |-> 1, backendRan |-> TRUE]

\* ChromaVectorStore.delete_documents: every exception is wrapped
delete_documents(ids, idx, backend) ==
    IF backend = "none"
    THEN [exc |-> "none", result |-> [kind |-> "None", docs |-> <<>>],
          index |-> {e \in idx : e.id \notin Range(ids)},
          backendCalls |-> 1, backendRan |-> TRUE]
    ELSE [exc |-> "RetrievalError", result |-> [kind |-> "raised", docs |-> <<>>],
          index |-> idx, backendCalls |-> 1, backendRan |-> TRUE]


----------------------------------------------------------------------------
(* The upload handler: src/src/api/routes.py *)

TmpNames == 1..MaxTmpFiles

\* tempfile.NamedTemporaryFile picks a name no existing file has
FreshTmp(tmps) == CHOOSE p \in TmpNames \ tmps : \A q \in TmpNames \ tmps : p <= q

NotCalled == [exc |-> "not_called", cause |-> "none", chunks |-> <<>>, trace |-> <<>>]

NoAdd == [exc |-> "not_called", result |-> [kind |-> "none", ids |-> <<>>],
          documents |-> <<>>, backendCalls |-> 0, backendRan |-> FALSE]

\* A finished upload request
UploadRecord(status, cause, suffix, wrote, path, proc, add, addCalls, idx) ==
    [pc |-> "done", status |-> status, cause |-> cause, suffix |-> suffix,
     tmpWritten |-> wrote, tmpPath |-> path, proc |-> proc,
     add |-> [exc |-> add.exc, result |-> add.result, documents |-> add.documents,
              backendCalls |-> add.backendCalls, backendRan |-> add.backendRan],
     addCalls |-> addCalls, indexBefore |-> idx]

\* DocumentUploadResponse(document_id=doc_ids[0] if doc_ids else str(uuid4()), ...):
\* the exception building the response raises, or "none"
build_response(doc_ids) ==
    IF doc_ids.kind = "list" THEN "none"
    ELSE \* a coroutine object is true and cannot be subscripted
         "TypeError"

\* upload_document, from the request to the response.  Every exception
\* inside the try block is answered with status 500.
upload_handler(suffix, size, data, metadata, loadOutcome, splitOutcome, now, idx, tmps) ==
    LET path == FreshTmp(tmps)
        file == [exists |-> TRUE, suffix |-> suffix, size |-> size, data |-> data,
                 path |-> path, name |-> path]
        wrote == tmps \cup {path}
        proc == process_document(file, metadata, loadOutcome, splitOutcome, now)
        enriched == [i \in 1..Len(proc.chunks) |-> enrich(proc.chunks[i], now)]
        add == add_documents(enriched, idx, "none")
        unlinked == wrote \ {path}
        resp == build_response(add.result)
    IN  IF suffix \notin SUPPORTED_FORMATS
        THEN \* HTTPException(status_code=400, details=...) raises TypeError
             [rec |-> UploadRecord(500, "TypeError", suffix, FALSE, 0, NotCalled, NoAdd, 0, idx),
              index |-> idx, tmpFiles |-> tmps]
        ELSE IF metadata.kind = "garbage"
        THEN \* eval(metadata) raises
             [rec |-> UploadRecord(500, "SyntaxError", suffix, TRUE, path, NotCalled, NoAdd, 0, idx),
              index |-> idx, tmpFiles |-> wrote]
        ELSE IF proc.exc # "none"
        THEN [rec |-> UploadRecord(500, proc.exc, suffix, TRUE, path, proc, NoAdd, 0, idx),
              index |-> idx, tmpFiles |-> wrote]
        ELSE IF add.exc # "none"
        THEN [rec |-> UploadRecord(500, add.exc, suffix, TRUE, path, proc, add, 1, idx),
              index |-> add.index, tmpFiles |-> wrote]
        ELSE IF resp # "none"
        THEN [rec |-> UploadRecord(500, resp, suffix, TRUE, path, proc, add, 1, idx),
              index |-> add.index, tmpFiles |-> unlinked]
        ELSE [rec |-> UploadRecord(200, "none", suffix, TRUE, path, proc, add, 1, idx),
              index |-> add.index, tmpFiles |-> unlinked]

\* POST /documents/upload
upload_document ==
    /\ up.pc = "idle"
    /\ TmpNames \ tmpFiles # {}
    /\ \E suffix \in Suffixes, size \in Sizes, data \in Datas, metadata \in UploadMetadatas,
          lo \in LoadOutcomes, so \in SplitOutcomes, now \in Times :
          LET r == upload_handler(suffix, size, data, metadata, lo, so, now, index, tmpFiles)
          IN  /\ up' = r.rec
              /\ index' = r.index
              /\ tmpFiles' = r.tmpFiles
    /\ UNCHANGED <<pd, gw, gen, store, openConns, cc, keys, sp, en, val, qry>>

\* The response of the upload has been sent
upload_return ==
    /\ up.pc = "done"
    /\ up' = Idle
    /\ UNCHANGED <<index, tmpFiles, pd, gw, gen, store, openConns, cc, keys, sp, en, val, qry>>

\* A call of DocumentProcessor.process_document on a path of the disk
process_document_call ==
    /\ pd.pc = "idle"
    /\ \E exists \in BOOLEAN, suffix \in Suffixes, size \in Sizes, data \in ProcessDatas,
          metadata \in UploadMetadatas \ {[kind |-> "garbage"]},
          lo \in LoadOutcomes, so \in SplitOutcomes, now \in Times :
          LET file == [exists |-> exists, suffix |-> suffix, size |-> size, data |-> data,
                       path |-> 0, name |-> 0]
          IN  pd' = [pc |-> "done", file |-> file, metadata |-> metadata,
                     loadOutcome |-> lo, splitOutcome |-> so, now |-> now,
                     proc |-> process_document(file, metadata, lo, so, now),
                     again |-> NotCalled]
    /\ UNCHANGED <<index, tmpFiles, up, gw, gen, store, openConns, cc, keys, sp, en, val, qry>>

\* process_document is called once more, later, on a byte-identical copy
\* of the file at another path, with the same custom metadata.  The loader
\* and the splitter are functions of the bytes and of the configuration, so
\* they do what they did the first time.
process_document_again ==
    /\ pd.pc = "done"
    /\ LET copy == [pd.file EXCEPT !.path = 1, !.name = 1]
       IN  pd' = [pd EXCEPT !.pc = "again",
                            !.again = process_document(copy, pd.metadata, pd.loadOutcome,
                                                       pd.splitOutcome, pd.now + 1)]
    /\ UNCHANGED <<index, tmpFiles, up, gw, gen, store, openConns, cc, keys, sp, en, val, qry>>

process_document_return ==
    /\ pd.pc \in {"done", "again"}
    /\ pd' = Idle
    /\ UNCHANGED <<index, tmpFiles, up, gw, gen, store, openConns, cc, keys, sp, en, val, qry>>

----------------------------------------------------------------------------
(* Calls of the Index Gateway *)

\* Chunks handed to add_documents
GatewayChunks == {[page_content |-> t, metadata |-> [source |-> "a.txt"]] : t \in Texts}

Queries == {"foo", "bar"}

\* Values of k: one, and settings.TOP_K_RESULTS
TopKs == {1, 5}

\* filter: None, or an equality constraint
Filters == {EmptyDict, [source |-> "a.txt"]}

GatewayRecord(op, arg, backend, r, idx) ==
    [pc |-> "done", op |-> op, arg |-> arg, backend |-> backend, exc |-> r.exc,
     result |-> r.result, backendCalls |-> r.backendCalls, backendRan |-> r.backendRan,
     indexBefore |-> idx]

add_documents_call ==
    /\ gw.pc = "idle"
    /\ \E documents \in SeqsUpTo(GatewayChunks, MaxChunks), backend \in BackendOutcomes :
          LET r == add_documents(documents, index, backend)
          IN  /\ gw' = GatewayRecord("add_documents", documents, backend, r, index)
              /\ index' = r.index
    /\ UNCHANGED <<tmpFiles, up, pd, gen, store, openConns, cc, keys, sp, en, val, qry>>

similarity_search_call ==
    /\ gw.pc = "idle"
    /\ \E query \in Queries, k \in TopKs, filter \in Filters, backend \in BackendOutcomes :
          \E results \in SearchResults(index, k, filter) :
             LET r == similarity_search(results, index, backend)
             IN  /\ gw' = GatewayRecord("similarity_search", <<query, k, filter>>, backend, r, index)
                 /\ index' = r.index
    /\ UNCHANGED <<tmpFiles, up, pd, gen, store, openConns, cc, keys, sp, en, val, qry>>

delete_documents_call ==
    /\ gw.pc = "idle"
    /\ \E ids \in SeqsUpTo(Ids, 2), backend \in BackendOutcomes :
          LET r == delete_documents(ids, index, backend)
          IN  /\ gw' = GatewayRecord("delete_documents", ids, backend, r, index)
              /\ index' = r.index
    /\ UNCHANGED <<tmpFiles, up, pd, gen, store, openConns, cc, keys, sp, en, val, qry>>

gateway_return ==
    /\ gw.pc = "done"
    /\ gw' = Idle
    /\ UNCHANGED <<index, tmpFiles, up, pd, gen, store, openConns, cc, keys, sp, en, val, qry>>

----------------------------------------------------------------------------
(* Answer Generator: src/src/generation/llm_chain.py *)

\* _format_context: one block per document, numbered from 1
format_context(docs) ==
    [i \in 1..Len(docs) |->
        [number |-> i,
         source |-> IF "source" \in DOMAIN docs[i].metadata
                    THEN docs[i].metadata.source ELSE "Unknown",
         content |-> docs[i].page_content]]

\* The prompt template of _create_prompt_template
input_variables == {"context", "question"}

\* PromptTemplate.format(**kwargs): the template's variables are given by
\* keyword.  A positional argument is a TypeError; a variable that no
\* keyword gives is a KeyError.
prompt_format(positional, kwargs) ==
    IF positional # <<>> THEN [exc |-> "TypeError", prompt |-> <<>>]
    ELSE IF ~(input_variables \subseteq DOMAIN kwargs)
    THEN [exc |-> "KeyError", prompt |-> <<>>]
    ELSE [exc |-> "none", prompt |-> <<kwargs.context, kwargs.question>>]

\* The texts the model answers with
LlmAnswers == {Answer(<<"The", "cat", "sat">>, 1), Answer(<<"dog">>, 20)}

\* What the model does when it is invoked: it fails, or it returns a message
LlmOutcomes ==
    {[kind |-> "fail", content |-> EmptyAnswer]}
    \cup {[kind |-> "message", content |-> a] : a \in LlmAnswers}

\* _extract_sources
extract_sources(docs) ==
    LET Get(d, k, default) == IF k \in DOMAIN d.metadata THEN d.metadata[k] ELSE default
    IN  [i \in 1..Len(docs) |->
            [file_name |-> Get(docs[i], "file_name", "Unknown"),
             source |-> Get(docs[i], "source", "Unknown"),
             chunk_index |-> Get(docs[i], "chunk_index", 0),
             relevance_score |-> Get(docs[i], "relevance_score", 0)]]

\* `await x`: a coroutine is awaited; any other object raises TypeError
await_exc(kind) == IF kind = "coroutine" THEN "none" ELSE "TypeError"

GenFailed(calls) ==
    [exc |-> "GenerationError", llmCalls |-> calls, answer |-> EmptyAnswer,
     sources |-> <<>>, hasSources |-> FALSE]

\* generate_response: every exception inside the try block is re-raised as
\* GenerationError.  The context is passed to format() positionally;
\* self.llm.invoke is a blocking call whose result, a message, is awaited.
generate_response(query, context_docs, include_sources, llm) ==
    LET context == format_context(context_docs)
        fmt == prompt_format(<<context>>, [question |-> query])
    IN  IF fmt.exc # "none" THEN GenFailed(0)
        ELSE IF llm.kind = "fail" THEN GenFailed(1)
        ELSE IF await_exc(llm.kind) # "none" THEN GenFailed(1)
        ELSE [exc |-> "none", llmCalls |-> 1, answer |-> llm.content,
              sources |-> IF include_sources THEN extract_sources(context_docs) ELSE <<>>,
              hasSources |-> include_sources]

MaxDocs == 2

generate_response_call ==
    /\ gen.pc = "idle"
    /\ \E query \in Queries, docs \in SeqsUpTo(PreExisting, MaxDocs),
          include_sources \in BOOLEAN, llm \in LlmOutcomes :
          gen' = [pc |-> "done", query |-> query, docs |-> docs,
                  include_sources |-> include_sources, llm |-> llm,
                  r |-> generate_response(query, docs, include_sources, llm)]
    /\ UNCHANGED <<index, tmpFiles, up, pd, gw, store, openConns, cc, keys, sp, en, val, qry>>

generate_response_return ==
    /\ gen.pc = "done"
    /\ gen' = Idle
    /\ UNCHANGED <<index, tmpFiles, up, pd, gw, store, openConns, cc, keys, sp, en, val, qry>>

----------------------------------------------------------------------------
(* Response Validator: src/src/generation/validator.py *)

\* Scores are floats; they are modelled as fractions in lowest terms.
RECURSIVE Gcd(_, _)
Gcd(a, b) == IF b = 0 THEN a ELSE Gcd(b, a % b)

Abs(x) == IF x < 0 THEN 0 - x ELSE x

Frac(n, d) ==
    LET g == Gcd(Abs(n), d)
    IN  [num |-> n \div g, den |-> d \div g]

FAdd(x, y) == Frac(x.num * y.den + y.num * x.den, x.den * y.den)
FSub(x, y) == Frac(x.num * y.den - y.num * x.den, x.den * y.den)
FLess(x, y) == x.num * y.den < y.num * x.den
FMin(x, y) == IF FLess(y, x) THEN y ELSE x
FMax(x, y) == IF FLess(x, y) THEN y ELSE x

\* The number of characters of a token
TokenLen(tok) ==
    CASE tok \in {"The", "the", "cat", "sat", "mat", "dog"} -> 3
      [] tok \in {"cat.", "dog.", "find"} -> 4
      [] tok = "don't" -> 5
      [] tok \in {"Cannot", "cannot"} -> 6
      [] tok \in {"on", "--"} -> 2
      [] OTHER -> WordLen(tok)

\* re.findall(r'\w+', tok) of a lower-cased token
WordsOf(tok) ==
    CASE tok = "cat." -> {"cat"}
      [] tok = "dog." -> {"dog"}
      [] tok = "don't" -> {"don", "t"}
      [] tok = "def " -> {"def"}
      [] tok = "--" -> {}
      [] OTHER -> {tok}

\* The number of characters of the tokens of a text
RECURSIVE TextLenOf(_)
TextLenOf(t) == IF t = <<>> THEN 0 ELSE TokenLen(Head(t)) + TextLenOf(Tail(t))

\* len(answer)
AnswerLen(a) ==
    IF a.times = 0 \/ a.phrase = <<>> THEN 0
    ELSE \* the tokens, a space after each but the last
         a.times * (TextLenOf(a.phrase) + Len(a.phrase)) - 1

\* len(answer.split())
AnswerWordCount(a) == a.times * Len(a.phrase)

\* set(re.findall(r'\w+', answer.lower()))
AnswerWords(a) ==
    IF a.times = 0 THEN {}
    ELSE UNION {WordsOf(Lower(a.phrase[i])) : i \in 1..Len(a.phrase)}

\* set(re.findall(r'\w+', doc.page_content.lower()))
ContextWords(doc) ==
    UNION {WordsOf(Lower(doc.page_content[i])) : i \in 1..Len(doc.page_content)}

\* ResponseValidator.__init__
min_answer_length == 10
max_answer_length == 5000

\* The uncertainty phrases, token by token
uncertainty_phrases ==
    << <<"i", "don't", "have", "enough", "information">>,
       <<"cannot", "find">>,
       <<"not", "available", "in", "the", "context">>,
       <<"not", "mentioned", "in", "the", "documents">> >>

\* The first tokens of answer.lower(), enough of them to hold any phrase
LowerTokens(a) ==
    LET copies == IF a.times < 6 THEN a.times ELSE 6
        n == Len(a.phrase)
    IN  [i \in 1..(copies * n) |-> Lower(a.phrase[((i - 1) % n) + 1])]

\* phrase in answer_lower
PhraseIn(phrase, tokens) ==
    \E start \in 1..(Len(tokens) - Len(phrase) + 1) :
        \A j \in 1..Len(phrase) : tokens[start + j - 1] = phrase[j]

\* _contains_uncertainity
contains_uncertainity(answer) ==
    \E i \in 1..Len(uncertainty_phrases) : PhraseIn(uncertainty_phrases[i], LowerTokens(answer))

\* A faulty variant: the words of the answer are counted once, not once per document
check_grounding_counted_once(answer, context_docs) ==
    IF context_docs = <<>> THEN Frac(0, 1)
    ELSE LET answer_words == AnswerWords(answer)
             acc[i \in 0..Len(context_docs)] ==
                 IF i = 0 THEN [overlap_count |-> 0, total_terms |-> Cardinality(answer_words)]
                 ELSE [overlap_count |-> acc[i - 1].overlap_count
                                         + Cardinality(answer_words \cap ContextWords(context_docs[i])),
                       total_terms |-> acc[i - 1].total_terms]
             last == acc[Len(context_docs)]
         IN  IF last.total_terms = 0 THEN Frac(0, 1)
             ELSE FMin(Frac(last.overlap_count, last.total_terms), Frac(1, 1))

\* _check_grounding: the loop over the documents accumulates overlap_count
\* and total_terms
check_grounding(answer, context_docs) ==
    IF context_docs = <<>> THEN Frac(0, 1)
    ELSE LET answer_words == AnswerWords(answer)
             acc[i \in 0..Len(context_docs)] ==
                 IF i = 0 THEN [overlap_count |-> 0, total_terms |-> 0]
                 ELSE [overlap_count |-> acc[i - 1].overlap_count
                                         + Cardinality(answer_words \cap ContextWords(context_docs[i])),
                       total_terms |-> acc[i - 1].total_terms + Cardinality(answer_words)]
             last == acc[Len(context_docs)]
         IN  IF last.total_terms = 0 THEN Frac(0, 1)
             ELSE FMin(Frac(last.overlap_count, last.total_terms), Frac(1, 1))

\* A faulty variant: 50 words do not earn the bonus
calculate_quality_score_strict(answer, grounded_score) ==
    LET word_count == AnswerWordCount(answer)
        s1 == IF 50 < word_count /\ word_count <= 500
              THEN FAdd(grounded_score, Frac(2, 10)) ELSE grounded_score
        s2 == IF word_count < 20 \/ word_count > 1000
              THEN FSub(s1, Frac(3, 10)) ELSE s1
    IN  FMax(Frac(0, 1), FMin(Frac(1, 1), s2))

\* A faulty variant: the score is not clamped
calculate_quality_score_unclamped(answer, grounded_score) ==
    LET word_count == AnswerWordCount(answer)
        s1 == IF 50 <= word_count /\ word_count <= 500
              THEN FAdd(grounded_score, Frac(2, 10)) ELSE grounded_score
        s2 == IF word_count < 20 \/ word_count > 1000
              THEN FSub(s1, Frac(3, 10)) ELSE s1
    IN  s2

\* _calculate_quality_score
calculate_quality_score(answer, grounded_score) ==
    LET word_count == AnswerWordCount(answer)
        s1 == IF 50 <= word_count /\ word_count <= 500
              THEN FAdd(grounded_score, Frac(2, 10)) ELSE grounded_score
        s2 == IF word_count < 20 \/ word_count > 1000
              THEN FSub(s1, Frac(3, 10)) ELSE s1
    IN  FMax(Frac(0, 1), FMin(Frac(1, 1), s2))

\* A faulty variant: an answer with warnings is not valid
validate_gating(response, context_docs) ==
    LET answer == IF "answer" \in DOMAIN response THEN response.answer ELSE EmptyAnswer
        grounding_score == check_grounding(answer, context_docs)
        w == (IF AnswerLen(answer) < min_answer_length THEN <<"Answer too short">> ELSE <<>>)
             \o (IF FLess(grounding_score, Frac(1, 2)) THEN <<"Low grounding score">> ELSE <<>>)
    IN  [is_valid |-> w = <<>>,
         warnings |-> w,
         grounding_score |-> grounding_score,
         quality_score |-> calculate_quality_score(answer, grounding_score)]

\* validate: the statements of the method in order, each on the result of
\* the one before
validate(response, context_docs) ==
    LET answer == IF "answer" \in DOMAIN response THEN response.answer ELSE EmptyAnswer
        r0 == [is_valid |-> TRUE, warnings |-> <<>>,
               grounding_score |-> Frac(0, 1), quality_score |-> Frac(0, 1)]
        r1 == IF AnswerLen(answer) < min_answer_length
              THEN [r0 EXCEPT !.warnings = Append(@, "Answer too short"),
                              !.quality_score = FSub(@, Frac(2, 10))]
              ELSE r0
        r2 == IF AnswerLen(answer) > max_answer_length
              THEN [r1 EXCEPT !.warnings = Append(@, "Answer too long"),
                              !.quality_score = FSub(@, Frac(1, 10))]
              ELSE r1
        grounding_score == check_grounding(answer, context_docs)
        r3 == [r2 EXCEPT !.grounding_score = grounding_score]
        r4 == IF FLess(grounding_score, Frac(1, 2))
              THEN [r3 EXCEPT !.warnings = Append(@, "Low grounding score")]
              ELSE r3
        r5 == IF contains_uncertainity(answer)
              THEN [r4 EXCEPT !.warnings = Append(@, "Response indicates uncertainity")]
              ELSE r4
    IN  [r5 EXCEPT !.quality_score = calculate_quality_score(answer, grounding_score)]

----------------------------------------------------------------------------
(* Calls of the Response Validator *)

AnswerPhrases ==
    { <<"The", "cat", "sat">>, <<"dog">>, <<"Cannot", "find", "cat.">>, <<"--">>,
      <<"don't", "cat">> }

\* How often the phrase is repeated: word counts and lengths on both sides
\* of every threshold of the validator
AnswerTimes == {1, 2, 7, 19, 20, 49, 50, 500, 501, 1000, 1001}

Answers == {EmptyAnswer} \cup {Answer(p, t) : p \in AnswerPhrases, t \in AnswerTimes}

\* Responses of the generator: with an answer, and without the key
Responses == {[answer |-> a] : a \in Answers} \cup {[query |-> "foo"]}

ValidatorDocs ==
    { [page_content |-> <<"the", "cat", "sat", "on", "the", "mat">>, metadata |-> [source |-> "a.txt"]],
      [page_content |-> <<"The", "dog.">>, metadata |-> [source |-> "b.md"]],
      [page_content |-> <<>>, metadata |-> [source |-> "c.txt"]] }

validate_call ==
    /\ val.pc = "idle"
    /\ qry.pc = "idle"
    /\ \E response \in Responses, context_docs \in SeqsUpTo(ValidatorDocs, MaxDocs) :
          val' = [pc |-> "done", response |-> response, context_docs |-> context_docs,
                  r |-> validate(response, context_docs)]
    /\ UNCHANGED <<index, tmpFiles, up, pd, gw, gen, store, openConns, cc, keys, sp, en, qry>>

validate_return ==
    /\ val.pc = "done"
    /\ val' = Idle
    /\ UNCHANGED <<index, tmpFiles, up, pd, gw, gen, store, openConns, cc, keys, sp, en, qry>>

----------------------------------------------------------------------------
(* The query handler: src/src/api/routes.py *)

\* A finished query request
QueryRecord(status, cause, retrieved, generated, validateCalls, g, v) ==
    [pc |-> "done", status |-> status, cause |-> cause,
     retrieved |-> retrieved, generated |-> generated, validateCalls |-> validateCalls,
     answer |-> g.answer, sources |-> g.sources,
     grounding_score |-> v.grounding_score, quality_score |-> v.quality_score,
     warnings |-> v.warnings]

\* The scores of a request that was not validated
NotValidated ==
    [is_valid |-> TRUE, warnings |-> <<>>,
     grounding_score |-> Frac(0, 1), quality_score |-> Frac(0, 1)]

\* query_documents, from the request to the response.  An HTTPException is
\* re-raised, every other exception inside the try block is answered with
\* status 500.
query_handler(query, include_sources, results, backend, llm, idx) ==
    LET search == similarity_search(results, idx, backend)
        context_docs == search.result.docs
        response == generate_response(query, context_docs, include_sources, llm)
        validation_result == validate([answer |-> response.answer], context_docs)
    IN  IF search.exc # "none"
        THEN QueryRecord(500, search.exc, FALSE, FALSE, 0, GenFailed(0), NotValidated)
        ELSE IF context_docs = <<>>
        THEN QueryRecord(404, "HTTPException", TRUE, FALSE, 0, GenFailed(0), NotValidated)
        ELSE IF response.exc # "none"
        THEN QueryRecord(500, response.exc, TRUE, FALSE, 0, GenFailed(0), NotValidated)
        ELSE QueryRecord(200, "none", TRUE, TRUE, 1, response, validation_result)

\* POST /query
query_documents ==
    /\ qry.pc = "idle"
    /\ val.pc = "idle"
    /\ \E query \in Queries, k \in TopKs, filter \in Filters, include_sources \in BOOLEAN,
          backend \in BackendOutcomes, llm \in LlmOutcomes :
          \E results \in SearchResults(index, k, filter) :
             qry' = [request |-> [query |-> query, top_k |-> k, filters |-> filter,
                                  include_sources |-> include_sources],
                     backend |-> backend, llm |-> llm]
                    @@ query_handler(query, include_sources, results, backend, llm, index)
    /\ UNCHANGED <<index, tmpFiles, up, pd, gw, gen, store, openConns, cc, keys, sp, en, val>>

\* The response of the query has been sent
query_return ==
    /\ qry.pc = "done"
    /\ qry' = Idle
    /\ UNCHANGED <<index, tmpFiles, up, pd, gw, gen, store, openConns, cc, keys, sp, en, val>>

----------------------------------------------------------------------------
(* Cache Layer, key derivation: src/src/utils/cache.py *)

\* The characters of the strings that occur in cache keys
StrCodes(s) ==
    CASE s = "foo" -> <<102, 111, 111>>
      [] s = "bar" -> <<98, 97, 114>>
      [] s = "query" -> <<113, 117, 101, 114, 121>>
      [] s = "search" -> <<115, 101, 97, 114, 99, 104>>
      [] s = "top_k" -> <<116, 111, 112, 95, 107>>
      [] s = "filter" -> <<102, 105, 108, 116, 101, 114>>
      [] s = "a" -> <<97>>
      [] s = "b" -> <<98>>

\* str(n) of a one-digit integer
IntCodes(n) == <<48 + n>>

\* repr of a string
Quote(s) == <<39>> \o StrCodes(s) \o <<39>>

RECURSIVE Join(_, _)
Join(parts, sep) ==
    IF parts = <<>> THEN <<>>
    ELSE IF Len(parts) = 1 THEN parts[1]
    ELSE parts[1] \o sep \o Join(Tail(parts), sep)

CommaSpace == <<44, 32>>

\* repr of a dict: its items in insertion order
ReprDict(items) ==
    <<123>>
    \o Join([i \in 1..Len(items) |->
                Quote(items[i][1]) \o <<58, 32>> \o IntCodes(items[i][2])], CommaSpace)
    \o <<125>>

\* The parameters of the memoized function, by position
Params == <<"query", "top_k", "filter">>

\* Argument values: a string, an integer, or a dict (its items in insertion order)
StrV(s) == [t |-> "str", s |-> s, n |-> 0, items |-> <<>>]
IntV(n) == [t |-> "int", s |-> "", n |-> n, items |-> <<>>]
DictV(items) == [t |-> "dict", s |-> "", n |-> 0, items |-> items]

\* repr of an argument value
ReprValue(v) ==
    CASE v.t = "str" -> Quote(v.s)
      [] v.t = "int" -> IntCodes(v.n)
      [] v.t = "dict" -> ReprDict(v.items)

\* repr of a tuple of already formatted elements
ReprTuple(parts) ==
    <<40>> \o Join(parts, CommaSpace) \o (IF Len(parts) = 1 THEN <<44>> ELSE <<>>) \o <<41>>

ReprList(parts) == <<91>> \o Join(parts, CommaSpace) \o <<93>>

\* The alphabetical order of the parameter names
NameRank(name) == CASE name = "filter" -> 1 [] name = "query" -> 2 [] name = "top_k" -> 3

RECURSIVE InsertItem(_, _)
InsertItem(item, sorted) ==
    IF sorted = <<>> THEN <<item>>
    ELSE IF NameRank(item[1]) <= NameRank(sorted[1][1]) THEN <<item>> \o sorted
    ELSE <<Head(sorted)>> \o InsertItem(item, Tail(sorted))

\* sorted(kwargs.items()): kwargs is the sequence of <<name, value>> as written
RECURSIVE SortedItems(_)
SortedItems(kwargs) ==
    IF kwargs = <<>> THEN <<>>
    ELSE InsertItem(Head(kwargs), SortedItems(Tail(kwargs)))

\* f"{prefix}:{args}:{items}"
KeyData(prefix, args, items) ==
    StrCodes(prefix)
    \o <<58>>
    \o ReprTuple([i \in 1..Len(args) |-> ReprValue(args[i])])
    \o <<58>>
    \o ReprList([i \in 1..Len(items) |->
                    ReprTuple(<<Quote(items[i][1]), ReprValue(items[i][2])>>)])

\* hashlib.md5(...).hexdigest()
md5(codes) == DigestFrom(5381, codes, 33, 16777216)

\* A faulty variant: the keyword arguments are formatted as they were written
generate_key_unsorted(prefix, args, kwargs) == md5(KeyData(prefix, args, kwargs))

\* CacheManager.generate_key
generate_key(prefix, args, kwargs) == md5(KeyData(prefix, args, SortedItems(kwargs)))

----------------------------------------------------------------------------
(* Calls of a memoized function *)

Prefixes == {"query", "search"}

QueryVals == {StrV("foo"), StrV("bar")}
TopKVals == {IntV(5), IntV(3)}
\* two spellings of the dict {a: 1, b: 2}
FilterVals == {DictV(<< <<"a", 1>>, <<"b", 2>> >>), DictV(<< <<"b", 2>>, <<"a", 1>> >>)}

ParamVals(name) ==
    CASE name = "query" -> QueryVals
      [] name = "top_k" -> TopKVals
      [] name = "filter" -> FilterVals

\* The sequences without repetition over a set of names
Orderings(names) ==
    {s \in [1..Cardinality(names) -> names] :
        \A i, j \in 1..Cardinality(names) : i # j => s[i] # s[j]}

\* The first n parameters are given by position, some of the others by keyword
CallsWith(n) ==
    LET rest == {Params[i] : i \in (n + 1)..Len(Params)}
    IN  UNION { UNION { { [args |-> a, kwargs |-> [i \in 1..Len(o) |-> <<o[i], v[o[i]]>>]]
                          : a \in {x \in [1..n -> QueryVals \cup TopKVals \cup FilterVals] :
                                      \A i \in 1..n : x[i] \in ParamVals(Params[i])},
                            v \in {x \in [names -> QueryVals \cup TopKVals \cup FilterVals] :
                                      \A m \in names : x[m] \in ParamVals(m)} }
                        : o \in Orderings(names) }
                : names \in SUBSET rest }

Calls == UNION {CallsWith(n) : n \in 0..Len(Params)}

\* The value each parameter is bound to; a dict counts by its items
Bound(call) ==
    LET names == {Params[i] : i \in 1..Len(call.args)} \cup {call.kwargs[i][1] : i \in 1..Len(call.kwargs)}
        Raw(m) == IF \E i \in 1..Len(call.args) : Params[i] = m
                  THEN call.args[CHOOSE i \in 1..Len(call.args) : Params[i] = m]
                  ELSE call.kwargs[CHOOSE i \in 1..Len(call.kwargs) : call.kwargs[i][1] = m][2]
    IN  [m \in names |-> [Raw(m) EXCEPT !.items = Range(@)]]

\* Two calls give every parameter the same value
LogicallyEqual(c1, c2) ==
    /\ DOMAIN Bound(c1) = DOMAIN Bound(c2)
    /\ \A m \in DOMAIN Bound(c1) : Bound(c1)[m] = Bound(c2)[m]

\* The keyword arguments of a call as a mapping
KwMap(call) ==
    [m \in {call.kwargs[i][1] : i \in 1..Len(call.kwargs)} |->
        call.kwargs[CHOOSE i \in 1..Len(call.kwargs) : call.kwargs[i][1] = m][2]]

\* cached.wrapper derives the key of a call (lines 103-108)
derive_key ==
    /\ Len(keys) < 2
    /\ \E prefix \in Prefixes, call \in Calls :
          keys' = Append(keys, [prefix |-> prefix, call |-> call,
                                key |-> generate_key(prefix, call.args, call.kwargs)])
    /\ UNCHANGED <<index, tmpFiles, up, pd, gw, gen, store, openConns, cc, sp, en, val, qry>>

\* Both calls are over
forget_keys ==
    /\ Len(keys) = 2
    /\ keys' = <<>>
    /\ UNCHANGED <<index, tmpFiles, up, pd, gw, gen, store, openConns, cc, sp, en, val, qry>>

----------------------------------------------------------------------------
(* Cache Layer, CacheManager and cached(): src/src/utils/cache.py *)

CACHE_TTL_SECONDS == 3600

\* Results of the memoized function: None, a string, a tuple, a list, and an
\* object json cannot serialize
NoneV == [t |-> "none", s |-> "", n |-> 0, items |-> <<>>]
TupleV(items) == [t |-> "tuple", s |-> "", n |-> 0, items |-> items]
ListV(items) == [t |-> "list", s |-> "", n |-> 0, items |-> items]
ObjectV == [t |-> "object", s |-> "", n |-> 0, items |-> <<>>]

Results == {NoneV, StrV("foo"), TupleV(<<1, 2>>), ObjectV}

\* json.dumps: tuples and lists both become arrays; an arbitrary object is a TypeError
json_dumps(v) ==
    IF v.t = "object" THEN [exc |-> "TypeError", text |-> [j |-> "", s |-> "", n |-> 0, items |-> <<>>]]
    ELSE [exc |-> "none",
          text |-> CASE v.t = "none" -> [j |-> "null", s |-> "", n |-> 0, items |-> <<>>]
                     [] v.t = "str" -> [j |-> "string", s |-> v.s, n |-> 0, items |-> <<>>]
                     [] v.t = "int" -> [j |-> "number", s |-> "", n |-> v.n, items |-> <<>>]
                     [] v.t \in {"tuple", "list"} ->
                            [j |-> "array", s |-> "", n |-> 0, items |-> v.items]
                     [] v.t = "dict" -> [j |-> "object", s |-> "", n |-> 0, items |-> v.items]]

\* json.loads
json_loads(text) ==
    CASE text.j = "null" -> NoneV
      [] text.j = "string" -> StrV(text.s)
      [] text.j = "number" -> IntV(text.n)
      [] text.j = "array" -> ListV(text.items)
      [] text.j = "object" -> DictV(text.items)

\* What the store does during one call
ConnectOutcomes == {"ok", "from_url_fail", "ping_fail"}

CacheEnvs ==
    [enabled : BOOLEAN, connect : ConnectOutcomes,
     getFail : BOOLEAN, setFail : BOOLEAN, closeFail : BOOLEAN]

\* What the wrapped function does: it returns a value or raises
FuncOutcomes == {[exc |-> "none", value |-> v] : v \in Results}
                \cup {[exc |-> "FuncError", value |-> NoneV]}

\* The ttl argument of cached(): None (written 0), or seconds
Ttls == {0, 60}

\* CacheManager.connect: <<redis_client is set, enabled>>
connect(env) ==
    IF ~env.enabled THEN [client |-> FALSE, enabled |-> FALSE]
    ELSE IF env.connect = "from_url_fail" THEN [client |-> FALSE, enabled |-> FALSE]
    ELSE IF env.connect = "ping_fail" THEN [client |-> TRUE, enabled |-> FALSE]
    ELSE [client |-> TRUE, enabled |-> TRUE]

\* CacheManager.get: the value, or None
get(conn, env, st, key) ==
    IF ~conn.enabled \/ ~conn.client THEN NoneV
    ELSE IF env.getFail THEN NoneV
    ELSE IF key \in DOMAIN st THEN json_loads(st[key].value)
    ELSE NoneV

\* CacheManager.set: the store after it, and whether the value was stored
set(conn, env, st, key, value, ttl) ==
    IF ~conn.enabled \/ ~conn.client THEN [ok |-> FALSE, store |-> st]
    ELSE IF json_dumps(value).exc # "none" THEN [ok |-> FALSE, store |-> st]
    ELSE IF env.setFail THEN [ok |-> FALSE, store |-> st]
    ELSE [ok |-> TRUE,
          store |-> (key :> [value |-> json_dumps(value).text,
                             ttl |-> IF ttl # 0 THEN ttl ELSE CACHE_TTL_SECONDS]) @@ st]

\* CacheManager.disconnect: close() is called outside any try block
disconnect(conn, env) ==
    IF ~conn.client THEN [exc |-> "none", open |-> FALSE]
    ELSE IF env.closeFail THEN [exc |-> "ConnectionError", open |-> TRUE]
    ELSE [exc |-> "none", open |-> FALSE]

\* The wrapper of cached(prefix, ttl): the call as its caller sees it
cached_wrapper(prefix, call, ttl, env, f, st) ==
    LET conn == connect(env)
        cache_key == generate_key(prefix, call.args, call.kwargs)
        cached_result == get(conn, env, st, cache_key)
        stored == set(conn, env, st, cache_key, f.value, ttl)
        closed == disconnect(conn, env)
    IN  IF cached_result # NoneV
        THEN [exc |-> closed.exc,
              value |-> IF closed.exc = "none" THEN cached_result ELSE NoneV,
              funcCalls |-> 0, hit |-> TRUE, handleOpen |-> closed.open, store |-> st]
        ELSE IF f.exc # "none"
        THEN \* the exception of the wrapped function leaves the wrapper
             [exc |-> f.exc, value |-> NoneV, funcCalls |-> 1, hit |-> FALSE,
              handleOpen |-> conn.client, store |-> st]
        ELSE [exc |-> closed.exc,
              value |-> IF closed.exc = "none" THEN f.value ELSE NoneV,
              funcCalls |-> 1, hit |-> FALSE, handleOpen |-> closed.open,
              store |-> stored.store]

MaxOpenConns == 2

\* The calls of the memoized function in the cache model
CacheCalls ==
    { [args |-> <<StrV("foo")>>, kwargs |-> <<>>],
      [args |-> <<>>, kwargs |-> << <<"query", StrV("foo")>>, <<"top_k", IntV(5)>> >>],
      [args |-> <<>>, kwargs |-> << <<"top_k", IntV(5)>>, <<"query", StrV("foo")>> >>] }

\* A call of a function wrapped by cached("query", ttl)
cached_call ==
    /\ cc.pc = "idle"
    /\ openConns < MaxOpenConns
    /\ \E call \in CacheCalls, ttl \in Ttls, env \in CacheEnvs, f \in FuncOutcomes :
          LET r == cached_wrapper("query", call, ttl, env, f, store)
          IN  /\ cc' = [pc |-> "done", call |-> call, ttl |-> ttl, env |-> env, f |-> f,
                        conn |-> connect(env), storeBefore |-> store,
                        r |-> [exc |-> r.exc, value |-> r.value, funcCalls |-> r.funcCalls,
                               hit |-> r.hit, handleOpen |-> r.handleOpen]]
              /\ store' = r.store
              /\ openConns' = openConns + (IF r.handleOpen THEN 1 ELSE 0)
    /\ UNCHANGED <<index, tmpFiles, up, pd, gw, gen, keys, sp, en, val, qry>>

cached_return ==
    /\ cc.pc = "done"
    /\ cc' = Idle
    /\ UNCHANGED <<index, tmpFiles, up, pd, gw, gen, store, openConns, keys, sp, en, val, qry>>

\* The ttl of an entry runs out: the store drops it
expire ==
    /\ cc.pc = "idle"
    /\ \E key \in DOMAIN store :
          store' = [k \in DOMAIN store \ {key} |-> store[k]]
    /\ UNCHANGED <<index, tmpFiles, up, pd, gw, gen, openConns, cc, keys, sp, en, val, qry>>

----------------------------------------------------------------------------
Init ==
    /\ index \in {{}, PreExisting}
    /\ tmpFiles = {}
    /\ up = Idle
    /\ pd = Idle
    /\ gw = Idle
    /\ gen = Idle
    /\ store = <<>>
    /\ openConns = 0
    /\ cc = Idle
    /\ keys = <<>>
    /\ sp = Idle
    /\ en = Idle
    /\ val = Idle
    /\ qry = Idle

\* The upload endpoint
NextUpload ==
    \/ upload_document
    \/ upload_return

SpecUpload == Init /\ [][NextUpload]_vars

\* The Document Processor called on arbitrary paths
NextProcess ==
    \/ process_document_call
    \/ process_document_again
    \/ process_document_return

SpecProcess == Init /\ [][NextProcess]_vars

\* A new Document Processor splitting documents
NextSplit ==
    \/ split_documents_call
    \/ split_documents_return

SpecSplit == Init /\ [][NextSplit]_vars

\* The Metadata Enricher
NextEnrich ==
    \/ enrich_call
    \/ enrich_return

SpecEnrich == Init /\ [][NextEnrich]_vars

\* The Index Gateway
NextGateway ==
    \/ add_documents_call
    \/ similarity_search_call
    \/ delete_documents_call
    \/ gateway_return

SpecGateway == Init /\ [][NextGateway]_vars

\* The Answer Generator
NextGeneration ==
    \/ generate_response_call
    \/ generate_response_return

SpecGeneration == Init /\ [][NextGeneration]_vars

\* The Response Validator, called directly and by the query endpoint
NextValidate ==
    \/ validate_call
    \/ validate_return
    \/ query_documents
    \/ query_return

SpecValidate == Init /\ [][NextValidate]_vars

\* Key derivation for two calls of a memoized function
NextKey ==
    \/ derive_key
    \/ forget_keys

SpecKey == Init /\ [][NextKey]_vars

\* Calls of a memoized function
NextCache ==
    \/ cached_call
    \/ cached_return
    \/ expire

SpecCache == Init /\ [][NextCache]_vars

----------------------------------------------------------------------------
(* Properties *)

\* C1: an upload whose document processing fails gets DocumentProcessingError
\* from process_document and no chunks, never reaches add_documents, and
\* leaves the index as it was; so does an upload that never reaches
\* process_document.
FailedIngestionCreatesZeroChunks ==
    up.pc = "done" =>
        /\ (up.proc.exc # "not_called" /\ up.proc.cause # "none") =>
              /\ up.proc.exc = "DocumentProcessingError"
              /\ up.proc.chunks = <<>>
              /\ up.addCalls = 0
              /\ index = up.indexBefore
        /\ up.proc.exc = "not_called" => (up.addCalls = 0 /\ index = up.indexBefore)

\* C1 witness: the splitter failed on an upload while the index held chunks
FailedIngestionWitness ==
    /\ up.pc = "done"
    /\ up.proc.cause = "SplitterError"
    /\ up.proc.exc = "DocumentProcessingError"
    /\ up.addCalls = 0
    /\ index = PreExisting

TooLarge(file) == file.size > MAX_DOCUMENT_SIZE_MB * BytesPerMB

\* C2: a missing file, an unsupported extension and an oversized file fail
\* with DocumentProcessingError before a loader is selected or invoked; a
\* supported extension without loader (.pptx) fails with
\* DocumentProcessingError and nothing is loaded.
ValidationFailsBeforeLoading ==
    pd.pc = "done" =>
        /\ (~pd.file.exists \/ pd.file.suffix \notin SUPPORTED_FORMATS \/ TooLarge(pd.file)) =>
              /\ pd.proc.exc = "DocumentProcessingError"
              /\ "select_loader" \notin Range(pd.proc.trace)
              /\ "load" \notin Range(pd.proc.trace)
        /\ (pd.file.exists /\ pd.file.suffix = ".pptx" /\ ~TooLarge(pd.file)) =>
              /\ pd.proc.exc = "DocumentProcessingError"
              /\ "load" \notin Range(pd.proc.trace)
              /\ pd.proc.chunks = <<>>

\* C2 witness: an existing .txt file one byte over the maximum was rejected
\* by the validation alone
OversizedFileWitness ==
    /\ pd.pc = "done"
    /\ pd.file.exists
    /\ pd.file.suffix = ".txt"
    /\ pd.file.size = MAX_DOCUMENT_SIZE_MB * BytesPerMB + 1
    /\ pd.proc.exc = "DocumentProcessingError"
    /\ pd.proc.trace = <<"validate">>

\* C3: when an upload request that wrote its temporary file is finished,
\* the file is gone.
TempFileReleasedOnEveryExit ==
    (up.pc = "done" /\ up.tmpWritten) => up.tmpPath \notin tmpFiles

\* C4: a failure of the backend during a gateway operation reaches the
\* caller as RetrievalError, and the backend is called at most once.
BackendFailureIsRetrievalError ==
    gw.pc = "done" =>
        /\ gw.backendCalls <= 1
        /\ (gw.backendRan /\ gw.backend # "none") => gw.exc = "RetrievalError"

\* C5: when add_documents returns, its result is one id per input chunk,
\* pairwise distinct, and the index holds each chunk under its id.
AddDocumentsReturnsStoredIds ==
    (gw.pc = "done" /\ gw.op = "add_documents" /\ gw.exc = "none") =>
        /\ gw.result.kind = "list"
        /\ Len(gw.result.ids) = Len(gw.arg)
        /\ \A i, j \in 1..Len(gw.result.ids) :
              i # j => gw.result.ids[i] # gw.result.ids[j]
        /\ \A i \in 1..Len(gw.result.ids) :
              \E e \in index : /\ e.id = gw.result.ids[i]
                               /\ e.page_content = gw.arg[i].page_content

\* C6: a finished generate_response call has invoked the model exactly once.
ModelInvokedExactlyOnce ==
    gen.pc = "done" => gen.r.llmCalls = 1

\* The operations on the store that failed during the last memoized call
CacheFailed ==
    \/ cc.env.enabled /\ cc.env.connect # "ok"
    \/ cc.conn.enabled /\ cc.conn.client /\ cc.env.getFail
    \/ cc.conn.enabled /\ cc.conn.client /\ ~cc.r.hit /\ cc.f.exc = "none" /\ cc.env.setFail
    \/ cc.conn.client /\ (cc.r.hit \/ cc.f.exc = "none") /\ cc.env.closeFail

\* C7: no failure of the store reaches the caller of a memoized function;
\* when a store operation failed, the wrapped function ran and the caller
\* got its result or its exception.
CacheNeverFatal ==
    cc.pc = "done" =>
        /\ cc.r.exc \in {"none", "FuncError"}
        /\ CacheFailed =>
              /\ cc.r.funcCalls = 1
              /\ cc.r.exc = cc.f.exc
              /\ cc.f.exc = "none" => cc.r.value = cc.f.value

\* C8: when a memoized call is over, the connection handle it opened is closed.
ConnectionClosedAfterCall ==
    cc.pc = "done" => ~cc.r.handleOpen

\* C9 as claimed: two calls with the same prefix that give every parameter
\* the same value derive the same key.
LogicallyEqualCallsSameKey ==
    (Len(keys) = 2 /\ keys[1].prefix = keys[2].prefix
        /\ LogicallyEqual(keys[1].call, keys[2].call))
    => keys[1].key = keys[2].key

\* C9 amended: two calls with the same prefix, the same positional arguments
\* and the same keyword arguments, written in any order, derive the same key.
SameArgumentsAnyKeywordOrderSameKey ==
    (Len(keys) = 2 /\ keys[1].prefix = keys[2].prefix
        /\ keys[1].call.args = keys[2].call.args
        /\ KwMap(keys[1].call) = KwMap(keys[2].call))
    => keys[1].key = keys[2].key

\* C9 witness: three keyword arguments written in two different orders
KeywordOrderWitness ==
    /\ Len(keys) = 2
    /\ keys[1].prefix = keys[2].prefix
    /\ Len(keys[1].call.kwargs) = 3
    /\ KwMap(keys[1].call) = KwMap(keys[2].call)
    /\ keys[1].call.kwargs # keys[2].call.kwargs
    /\ keys[1].key = keys[2].key

\* The custom_metadata of the last process_document call, as a dict
CustomOf(metadata) == IF metadata.kind = "dict" THEN metadata.d ELSE EmptyDict

\* C10 as claimed: whatever the custom metadata, the chunk_index values
\* are 0..n-1 in output order and every total_chunks is n.
ChunkIndexRangeForEveryMetadata ==
    (pd.pc = "done" /\ pd.proc.exc = "none") =>
        \A i \in 1..Len(pd.proc.chunks) :
            /\ pd.proc.chunks[i].metadata.chunk_index = i - 1
            /\ pd.proc.chunks[i].metadata.total_chunks = Len(pd.proc.chunks)

\* C10 amended: the chunk_index values are 0..n-1 in output order unless
\* the custom metadata has the key chunk_index, and every total_chunks is n
\* unless the custom metadata has the key total_chunks; a custom value
\* replaces the generated one in every chunk.
ChunkIndexRangeUnlessOverridden ==
    (pd.pc = "done" /\ pd.proc.exc = "none") =>
        \A i \in 1..Len(pd.proc.chunks) :
            LET md == pd.proc.chunks[i].metadata
                custom == CustomOf(pd.metadata)
            IN  /\ md.chunk_index = IF "chunk_index" \in DOMAIN custom
                                    THEN custom.chunk_index ELSE i - 1
                /\ md.total_chunks = IF "total_chunks" \in DOMAIN custom
                                     THEN custom.total_chunks ELSE Len(pd.proc.chunks)

\* C10 witness: two chunks, custom metadata that names neither key
ChunkIndexWitness ==
    /\ pd.pc = "done"
    /\ pd.proc.exc = "none"
    /\ Len(pd.proc.chunks) = MaxChunks
    /\ pd.metadata = [kind |-> "dict", d |-> [department |-> "hr"]]
    /\ pd.proc.chunks[MaxChunks].metadata.chunk_index = MaxChunks - 1
    /\ pd.proc.chunks[MaxChunks].metadata.department = "hr"

\* C11: in every chunk process_document returns, each key of the custom
\* metadata has the caller's value, also when it is a generated key, and each
\* generated key the custom metadata does not name has its generated value.
CustomMetadataMergedLast ==
    (pd.pc = "done" /\ pd.proc.exc = "none" /\ pd.proc.chunks # <<>>) =>
        LET digest == sha256(pd.file.data)
        IN  \A i \in 1..Len(pd.proc.chunks) :
                LET md == pd.proc.chunks[i].metadata
                    custom == CustomOf(pd.metadata)
                    generated == [source |-> pd.file.path,
                                  file_name |-> pd.file.name,
                                  file_type |-> pd.file.suffix,
                                  file_hash |-> digest,
                                  chunk_index |-> i - 1,
                                  total_chunks |-> Len(pd.proc.chunks),
                                  processed_at |-> pd.now,
                                  chunk_size |-> TextLen(pd.proc.chunks[i].page_content)]
                IN  /\ DOMAIN md = DOMAIN generated \cup DOMAIN custom
                    /\ \A k \in DOMAIN custom : md[k] = custom[k]
                    /\ \A k \in DOMAIN generated \ DOMAIN custom : md[k] = generated[k]

\* C11 witness: the caller overrode source, file_name, file_type and
\* file_hash of a document of two chunks; the other generated keys stayed
CustomOverrideWitness ==
    /\ pd.pc = "done"
    /\ pd.proc.exc = "none"
    /\ Len(pd.proc.chunks) = 2
    /\ pd.metadata.kind = "dict"
    /\ DOMAIN pd.metadata.d = {"source", "file_name", "file_type", "file_hash"}
    /\ pd.proc.chunks[2].metadata.source = 9
    /\ pd.proc.chunks[2].metadata.file_type = ".zip"
    /\ pd.proc.chunks[2].metadata.chunk_index = 1
    /\ pd.proc.chunks[2].metadata.total_chunks = 2

\* The second run on byte-identical input gave as many chunks as the first,
\* with the same file_hash
SameCountAndHashAgain ==
    pd.pc = "again" =>
        /\ pd.again.exc = pd.proc.exc
        /\ Len(pd.again.chunks) = Len(pd.proc.chunks)
        /\ \A i \in 1..Len(pd.proc.chunks) :
              pd.again.chunks[i].metadata.file_hash = pd.proc.chunks[i].metadata.file_hash

ConsecutiveChunksShareOverlap ==
    sp.pc = "done" =>
        /\ sp.exc = "none"
        /\ \A i \in 1..(Len(sp.chunks) - 1) :
              LET a == sp.chunks[i]
                  b == sp.chunks[i + 1]
              IN  /\ Len(a) >= CHUNK_OVERLAP
                  /\ Len(b) >= CHUNK_OVERLAP
                  /\ SubSeq(a, Len(a) - CHUNK_OVERLAP + 1, Len(a)) = SubSeq(b, 1, CHUNK_OVERLAP)

\* The answer of the last validate call: response.get("answer", "")
ValidatedAnswer ==
    IF "answer" \in DOMAIN val.response THEN val.response.answer ELSE EmptyAnswer

\* C14: with A the word tokens of the answer and C_i those of the i-th of n
\* context chunks, the grounding score is 0 when n = 0 or A is empty and
\* otherwise min(sum of |A \cap C_i| / (|A| * n), 1); the warning about low
\* grounding is recorded exactly when the score is below 1/2.
GroundingScoreFormula ==
    val.pc = "done" =>
        LET A == AnswerWords(ValidatedAnswer)
            n == Len(val.context_docs)
            overlap == Cardinality({p \in (1..n) \X A :
                                       p[2] \in ContextWords(val.context_docs[p[1]])})
            total == Cardinality(A) * n
            g == val.r.grounding_score
        IN  /\ g.den > 0
            /\ IF n = 0 \/ A = {} THEN g.num = 0
               ELSE IF overlap >= total THEN g.num = g.den
               ELSE g.num * total = overlap * g.den
            /\ ("Low grounding score" \in Range(val.r.warnings)) <=> (2 * g.num < g.den)

\* C14 witness: three answer words, two chunks, one of them empty: the
\* score is exactly 1/2 and no warning is recorded
GroundingHalfWitness ==
    /\ val.pc = "done"
    /\ Len(val.context_docs) = 2
    /\ Cardinality(AnswerWords(ValidatedAnswer)) = 3
    /\ val.r.grounding_score = [num |-> 1, den |-> 2]
    /\ "Low grounding score" \notin Range(val.r.warnings)

\* C15: the quality score is the grounding score, plus 2/10 when the answer
\* has 50 to 500 words, minus 3/10 when it has fewer than 20 or more than
\* 1000, clamped to [0, 1]; the length of the answer in characters and the
\* uncertainty phrases have no part in it.
QualityScoreFormula ==
    val.pc = "done" =>
        LET wc == AnswerWordCount(ValidatedAnswer)
            g == val.r.grounding_score
            q == val.r.quality_score
            \* the unclamped score, in units of 1 / (10 * g.den)
            raw == 10 * g.num
                   + (IF 50 <= wc /\ wc <= 500 THEN 2 * g.den ELSE 0)
                   - (IF wc < 20 \/ wc > 1000 THEN 3 * g.den ELSE 0)
        IN  /\ q.den > 0
            /\ IF raw <= 0 THEN q.num = 0
               ELSE IF raw >= 10 * g.den THEN q.num = q.den
               ELSE q.num * 10 * g.den = raw * q.den

\* C15 witness: an answer of two words and seven characters, fully grounded:
\* it is warned about as too short and its quality is 1 - 3/10
QualityIgnoresLengthPenaltyWitness ==
    /\ val.pc = "done"
    /\ "Answer too short" \in Range(val.r.warnings)
    /\ AnswerWordCount(ValidatedAnswer) = 2
    /\ val.r.grounding_score = [num |-> 1, den |-> 1]
    /\ val.r.quality_score = [num |-> 7, den |-> 10]

\* C16: both scores of a validation result are in [0, 1].
ScoresInUnitInterval ==
    val.pc = "done" =>
        /\ 0 <= val.r.grounding_score.num
        /\ val.r.grounding_score.num <= val.r.grounding_score.den
        /\ 0 <= val.r.quality_score.num
        /\ val.r.quality_score.num <= val.r.quality_score.den

\* C16 witness: a fully grounded answer of 50 words, whose quality is cut
\* down to 1
ClampedQualityWitness ==
    /\ val.pc = "done"
    /\ AnswerWordCount(ValidatedAnswer) = 50
    /\ val.r.grounding_score = [num |-> 1, den |-> 1]
    /\ val.r.quality_score = [num |-> 1, den |-> 1]

OneSourcePerContextChunk ==
    (gen.pc = "done" /\ gen.llm.kind = "message") =>
        LET Get(d, k, default) == IF k \in DOMAIN d.metadata THEN d.metadata[k] ELSE default
        IN  /\ gen.r.exc = "none"
            /\ gen.r.hasSources = gen.include_sources
            /\ gen.include_sources =>
                  /\ Len(gen.r.sources) = Len(gen.docs)
                  /\ \A i \in 1..Len(gen.docs) :
                        /\ gen.r.sources[i].file_name = Get(gen.docs[i], "file_name", "Unknown")
                        /\ gen.r.sources[i].source = Get(gen.docs[i], "source", "Unknown")
                        /\ gen.r.sources[i].chunk_index = Get(gen.docs[i], "chunk_index", 0)
                        /\ gen.r.sources[i].relevance_score = Get(gen.docs[i], "relevance_score", 0)
            /\ \A i \in 1..Len(gen.docs) :
                  /\ format_context(gen.docs)[i].number = i
                  /\ format_context(gen.docs)[i].content = gen.docs[i].page_content

\* The categories of the classifier in the order of their priority, and
\* their keywords
ContentTypePriority == <<"code", "academic", "meeting_notes", "policy">>

ContentTypeKeywords(category) ==
    CASE category = "code" -> {"class", "def ", "function", "import"}
      [] category = "academic" -> {"abstract", "introduction", "methodology"}
      [] category = "meeting_notes" -> {"meeting", "agenda"}
      [] category = "policy" -> {"policy", "procedure"}

\* C19: the content type of a chunk is the first category, in the order
\* code, academic, meeting_notes, policy, one of whose keywords occurs in the
\* lower-cased text, and "general" when there is none.
ContentTypeFirstMatchWins ==
    en.pc = "done" =>
        LET text == en.document.page_content
            matching == {j \in 1..Len(ContentTypePriority) :
                            \E i \in 1..Len(text) :
                                KeywordsIn(Lower(text[i]))
                                    \cap ContentTypeKeywords(ContentTypePriority[j]) # {}}
        IN  en.r.metadata.content_type =
                IF matching = {} THEN "general"
                ELSE ContentTypePriority[CHOOSE j \in matching : \A m \in matching : j <= m]

\* C19 witness: a chunk with "Policy" before "DEF " is code
CodeBeforePolicyWitness ==
    /\ en.pc = "done"
    /\ en.document.page_content = <<"Policy", "DEF ">>
    /\ en.r.metadata.content_type = "code"

\* C20: with the store reachable, a memoized call whose key has an entry
\* in the store returns the stored value without running the wrapped
\* function; one whose key has none runs the function once and stores its
\* result, when it is serializable, under the key with the ttl given or the
\* default ttl.
MemoizedWithinTtl ==
    (cc.pc = "done" /\ cc.conn.enabled /\ cc.conn.client /\ ~cc.env.getFail) =>
        LET key == generate_key("query", cc.call.args, cc.call.kwargs)
        IN  /\ key \in DOMAIN cc.storeBefore =>
                  /\ cc.r.hit
                  /\ cc.r.funcCalls = 0
                  /\ cc.r.exc = "none" => cc.r.value = json_loads(cc.storeBefore[key].value)
            /\ key \notin DOMAIN cc.storeBefore =>
                  /\ cc.r.funcCalls = 1
                  /\ (cc.f.exc = "none" /\ json_dumps(cc.f.value).exc = "none" /\ ~cc.env.setFail) =>
                        /\ key \in DOMAIN store
                        /\ store[key].value = json_dumps(cc.f.value).text
                        /\ store[key].ttl = IF cc.ttl # 0 THEN cc.ttl ELSE CACHE_TTL_SECONDS

\* The keys MetadataEnricher.enrich sets
EnricherKeys == {"entities", "statistics", "content_type", "enriched_at"}

\* C21: each chunk an upload hands to add_documents is the chunk
\* process_document returned with the four keys of the enricher set to the
\* enricher's values, also when the custom metadata has such a key, and with
\* every other key as it was, so an override of another key by the custom
\* metadata is handed on.
EnrichmentAfterCustomMerge ==
    (up.pc = "done" /\ up.addCalls = 1) =>
        /\ Len(up.add.documents) = Len(up.proc.chunks)
        /\ \A i \in 1..Len(up.proc.chunks) :
              LET text == up.proc.chunks[i].page_content
                  before == up.proc.chunks[i].metadata
                  after == up.add.documents[i].metadata
              IN  /\ up.add.documents[i].page_content = text
                  /\ DOMAIN after = DOMAIN before \cup EnricherKeys
                  /\ \A k \in DOMAIN before \ EnricherKeys : after[k] = before[k]
                  /\ after.entities = extract_entities(text)
                  /\ after.statistics = calculate_statistics(text)
                  /\ after.content_type = identify_content_type(text)
                  /\ after.enriched_at \in Times

\* C21 witness: the custom metadata named content_type, enriched_at and
\* file_type; the chunk handed to add_documents has the enricher's
\* content_type and enriched_at and the caller's file_type
EnricherWinsWitness ==
    /\ up.pc = "done"
    /\ up.addCalls = 1
    /\ Len(up.add.documents) = 2
    /\ {"content_type", "enriched_at"} \subseteq DOMAIN up.proc.chunks[2].metadata
    /\ up.proc.chunks[2].metadata.content_type = "custom"
    /\ up.proc.chunks[2].metadata.enriched_at = 0
    /\ up.add.documents[2].metadata.content_type = "code"
    /\ up.add.documents[2].metadata.enriched_at \in Times
    /\ up.add.documents[2].metadata.file_type = ".zip"
    /\ up.suffix # ".zip"

=============================================================================
